---- MODULE Spec2Model ----
(***************************************************************************)
(* Model of the tournament decoding layer of challonge-rs                  *)
(* (src/src/tournament.rs): the accessor utilities into_map and remove,    *)
(* Tournament::decode, decode_tournaments / Index::decode and the          *)
(* TournamentType conversions.                                             *)
(*                                                                         *)
(* A call produces one of three outcomes: Ok(v), Err(reason, value) (the   *)
(* value Error::Decode returned to the caller) or Panic (an unwrap() on a  *)
(* None / Err, which unwinds through every caller).                        *)
(***************************************************************************)
EXTENDS Integers, Sequences, FiniteSets, TLC

(***************************************************************************)
(* Bounds of the model.                                                    *)
(***************************************************************************)
\* Largest number of places in which a drawn payload departs from the sample.
MaxEdits == 1
\* Longest array handed to the collection decoder.
MaxLen == 3
\* Largest number of keys taken out of a drawn payload together.
MaxAbsent == 3

(***************************************************************************)
(* serde_json::Value.  F64 carries the number in tenths.                   *)
(***************************************************************************)
Null == [t |-> "Null"]
Bool(b) == [t |-> "Bool", v |-> b]
U64(n) == [t |-> "U64", v |-> n]
F64(x) == [t |-> "F64", v |-> x]
Str(s) == [t |-> "String", v |-> s]
Arr(a) == [t |-> "Array", v |-> a]
Obj(m) == [t |-> "Object", v |-> m]

(***************************************************************************)
(* Result<T, Error>, Option<T> and the unwinding outcome.                  *)
(***************************************************************************)
Ok(v) == [tag |-> "Ok", v |-> v]
Err(reason, value) == [tag |-> "Err", reason |-> reason, value |-> value]
Panic == [tag |-> "Panic"]
None == [tag |-> "None"]
Some(v) == [tag |-> "Some", v |-> v]

\* Option::unwrap_or
unwrap_or(o, d) == IF o.tag = "Some" THEN o.v ELSE d

\* Value::as_boolean, as_u64, as_string, as_array
as_boolean(val) == IF val.t = "Bool" THEN Some(val.v) ELSE None
as_u64(val) == IF val.t = "U64" THEN Some(val.v) ELSE None
as_string(val) == IF val.t = "String" THEN Some(val.v) ELSE None
as_array(val) == IF val.t = "Array" THEN Some(val.v) ELSE None

(***************************************************************************)
(* Accessor utilities.                                                     *)
(***************************************************************************)
\* into_map losing the offending value.
into_map_without_value(value) ==
    IF value.t = "Object" THEN Ok(value.v) ELSE Err("Expected object", Null)

into_map(value) ==
    IF value.t = "Object" THEN Ok(value.v) ELSE Err("Expected object", value)

\* The value at key, and the map without the key.
remove(map, key) ==
    IF key \in DOMAIN map
    THEN [tag |-> "Ok", v |-> map[key],
          map |-> [k \in (DOMAIN map) \ {key} |-> map[k]]]
    ELSE Err("Unexpected absent key", Str(key))

(***************************************************************************)
(* TournamentType and its conversions.                                     *)
(***************************************************************************)
TournamentType == {"SingleElimination", "DoubleElimination", "RoundRobin", "Swiss"}

to_get_param(self) ==
    CASE self = "SingleElimination" -> "single_elimination"
      [] self = "DoubleElimination" -> "double_elimination"
      [] self = "RoundRobin" -> "round_robin"
      [] self = "Swiss" -> "swiss"

\* impl fmt::Display for TournamentType
to_string(self) ==
    CASE self = "SingleElimination" -> "single elimination"
      [] self = "DoubleElimination" -> "double elimination"
      [] self = "RoundRobin" -> "round robin"
      [] self = "Swiss" -> "swiss"

\* from_str that knows the machine spellings only.
from_str_machine_only(s) ==
    CASE s = "single_elimination" -> Ok("SingleElimination")
      [] s = "double_elimination" -> Ok("DoubleElimination")
      [] s = "round_robin" -> Ok("RoundRobin")
      [] s = "swiss" -> Ok("Swiss")
      [] OTHER -> Err("()", Null)

\* impl FromStr for TournamentType; the error type is ().
from_str(s) ==
    CASE s = "single_elimination" -> Ok("SingleElimination")
      [] s = "single elimination" -> Ok("SingleElimination")
      [] s = "double_elimination" -> Ok("DoubleElimination")
      [] s = "double elimination" -> Ok("DoubleElimination")
      [] s = "round_robin" -> Ok("RoundRobin")
      [] s = "round robin" -> Ok("RoundRobin")
      [] s = "swiss" -> Ok("Swiss")
      [] OTHER -> Err("()", Null)

(***************************************************************************)
(* Conversions of the standard library and of chrono, on the texts the     *)
(* model draws.                                                            *)
(***************************************************************************)
\* A DateTime<FixedOffset>: the local date and time and the offset in minutes.
DateTime(y, mo, d, h, mi, sec, off) ==
    [year |-> y, month |-> mo, day |-> d, hour |-> h, minute |-> mi,
     second |-> sec, offset |-> off]

\* DateTime::parse_from_rfc3339
parse_from_rfc3339(s) ==
    CASE s = "2015-01-19T16:47:30-05:00" -> Ok(DateTime(2015, 1, 19, 16, 47, 30, -300))
      [] s = "2015-01-19T16:57:17-05:00" -> Ok(DateTime(2015, 1, 19, 16, 57, 17, -300))
      [] s = "2016-02-29T08:00:00+01:00" -> Ok(DateTime(2016, 2, 29, 8, 0, 0, 60))
      [] s = "2016-03-01T23:59:59Z" -> Ok(DateTime(2016, 3, 1, 23, 59, 59, 0))
      [] OTHER -> Err("ParseError", Null)

\* str::parse::<f64>; the number in tenths.
parse_f64(s) ==
    CASE s = "0.0" -> Ok(0)
      [] s = "0.5" -> Ok(5)
      [] s = "1.0" -> Ok(10)
      [] s = "2.5" -> Ok(25)
      [] s = "3" -> Ok(30)
      [] OTHER -> Err("ParseFloatError", Null)

\* Result::unwrap_or
result_unwrap_or(r, d) == IF r.tag = "Ok" THEN r.v ELSE d

\* Option::unwrap and Result::unwrap: the payload, or a panic.
unwrap(o) == IF o.tag \in {"Some", "Ok"} THEN Ok(o.v) ELSE Panic

(***************************************************************************)
(* The field expressions of Tournament::decode, by the shape they have in  *)
(* the struct literal.                                                     *)
(***************************************************************************)
\* remove(..).as_boolean().unwrap_or(false)
bool_field(val) == Ok(unwrap_or(as_boolean(val), FALSE))

\* An unsigned-integer field that also reads quoted integers.
u64_field_lenient(val) ==
    IF val.t = "String" /\ val.v = "7" THEN Ok(7) ELSE Ok(unwrap_or(as_u64(val), 0))

\* remove(..).as_u64().unwrap_or(0)
u64_field(val) == Ok(unwrap_or(as_u64(val), 0))

\* A free-text field that refuses a value that is not a string.
string_field_strict(val) ==
    IF val.t = "String" THEN Ok(val.v) ELSE Err("Expected string", val)

\* remove(..).as_string().unwrap_or("").to_string()
string_field(val) == Ok(unwrap_or(as_string(val), ""))

\* A scoring field read as a native number.
f64_field_native(val) == Ok(IF val.t = "F64" THEN val.v ELSE 0)

\* remove(..).as_string().unwrap_or("").to_owned().parse::<f64>().unwrap_or(0.0f64)
f64_field(val) == Ok(result_unwrap_or(parse_f64(unwrap_or(as_string(val), "")), 0))

\* tournament_type with unwrap() in place of unwrap_or(SingleElimination).
tournament_type_field_unwrap(val) == unwrap(from_str(unwrap_or(as_string(val), "")))

\* TournamentType::from_str(remove(..).as_string().unwrap_or(""))
\*     .unwrap_or(TournamentType::SingleElimination)
tournament_type_field(val) ==
    Ok(result_unwrap_or(from_str(unwrap_or(as_string(val), "")), "SingleElimination"))

\* DateTime::parse_from_rfc3339(remove(..).as_string().unwrap_or("")).unwrap()
created_at_field(val) == unwrap(parse_from_rfc3339(unwrap_or(as_string(val), "")))

\* DateTime::parse_from_rfc3339(remove(..).as_string().unwrap()).unwrap()
updated_at_field(val) ==
    LET s == unwrap(as_string(val))
    IN  IF s.tag = "Panic" THEN Panic ELSE unwrap(parse_from_rfc3339(s.v))

\* started_at falling back to the epoch on text that does not parse.
started_at_field_epoch(val) ==
    LET dt_str == as_string(val)
    IN  IF dt_str.tag = "Some"
        THEN Some(result_unwrap_or(parse_from_rfc3339(dt_str.v),
                                   DateTime(1970, 1, 1, 0, 0, 0, 0)))
        ELSE None

\* The started_at block that precedes the struct literal.
started_at_field(val) ==
    LET dt_str == as_string(val)
    IN  IF dt_str.tag = "Some" /\ parse_from_rfc3339(dt_str.v).tag = "Ok"
        THEN Some(parse_from_rfc3339(dt_str.v).v)
        ELSE None

\* The keys the struct literal removes from the tournament object, in the
\* order it is written, each with the shape of its expression.
Fields ==
    << [key |-> "accept_attachments", kind |-> "bool"],
       [key |-> "allow_participant_match_reporting", kind |-> "bool"],
       [key |-> "anonymous_voting", kind |-> "bool"],
       [key |-> "created_at", kind |-> "created_at"],
       [key |-> "created_by_api", kind |-> "bool"],
       [key |-> "credit_capped", kind |-> "bool"],
       [key |-> "description", kind |-> "string"],
       [key |-> "game_id", kind |-> "u64"],
       [key |-> "id", kind |-> "u64"],
       [key |-> "name", kind |-> "string"],
       [key |-> "group_stages_enabled", kind |-> "bool"],
       [key |-> "hide_forum", kind |-> "bool"],
       [key |-> "hide_seeds", kind |-> "bool"],
       [key |-> "hold_third_place_match", kind |-> "bool"],
       [key |-> "max_predictions_per_user", kind |-> "u64"],
       [key |-> "notify_users_when_matches_open", kind |-> "bool"],
       [key |-> "notify_users_when_the_tournament_ends", kind |-> "bool"],
       [key |-> "open_signup", kind |-> "bool"],
       [key |-> "participants_count", kind |-> "u64"],
       [key |-> "prediction_method", kind |-> "u64"],
       [key |-> "private", kind |-> "bool"],
       [key |-> "progress_meter", kind |-> "u64"],
       [key |-> "pts_for_bye", kind |-> "f64"],
       [key |-> "pts_for_game_tie", kind |-> "f64"],
       [key |-> "pts_for_game_win", kind |-> "f64"],
       [key |-> "pts_for_match_tie", kind |-> "f64"],
       [key |-> "pts_for_match_win", kind |-> "f64"],
       [key |-> "quick_advance", kind |-> "bool"],
       [key |-> "require_score_agreement", kind |-> "bool"],
       [key |-> "rr_pts_for_game_tie", kind |-> "f64"],
       [key |-> "rr_pts_for_game_win", kind |-> "f64"],
       [key |-> "rr_pts_for_match_tie", kind |-> "f64"],
       [key |-> "rr_pts_for_match_win", kind |-> "f64"],
       [key |-> "sequential_pairings", kind |-> "bool"],
       [key |-> "show_rounds", kind |-> "bool"],
       [key |-> "swiss_rounds", kind |-> "u64"],
       [key |-> "teams", kind |-> "bool"],
       [key |-> "tournament_type", kind |-> "tournament_type"],
       [key |-> "updated_at", kind |-> "updated_at"],
       [key |-> "url", kind |-> "string"],
       [key |-> "description_source", kind |-> "string"],
       [key |-> "full_challonge_url", kind |-> "string"],
       [key |-> "live_image_url", kind |-> "string"],
       [key |-> "review_before_finalizing", kind |-> "bool"],
       [key |-> "accepting_predictions", kind |-> "bool"],
       [key |-> "participants_locked", kind |-> "bool"],
       [key |-> "game_name", kind |-> "string"],
       [key |-> "participants_swappable", kind |-> "bool"],
       [key |-> "team_convertable", kind |-> "bool"],
       [key |-> "group_stages_were_started", kind |-> "bool"] >>

\* The keys Tournament::decode removes from the tournament object.
ExtractedKeys == {"started_at"} \cup {Fields[i].key : i \in 1..Len(Fields)}

\* The expression of one field of the struct literal applied to the removed
\* value: Ok(field value), or Panic.
field_value(kind, val) ==
    CASE kind = "bool" -> bool_field(val)
      [] kind = "u64" -> u64_field(val)
      [] kind = "string" -> string_field(val)
      [] kind = "f64" -> f64_field(val)
      [] kind = "tournament_type" -> tournament_type_field(val)
      [] kind = "created_at" -> created_at_field(val)
      [] kind = "updated_at" -> updated_at_field(val)

(***************************************************************************)
(* Tournament::decode.                                                     *)
(***************************************************************************)
\* The place of each key in the struct literal.
Place == [k \in {Fields[i].key : i \in 1..Len(Fields)} |->
            CHOOSE i \in 1..Len(Fields) : Fields[i].key = k]

\* The keys of the fields written before the i-th.
KeysBefore == [i \in 1..Len(Fields) |-> {Fields[j].key : j \in 1..(i - 1)}]

\* The i-th field of the struct literal: the error of remove, or the outcome
\* of the field's expression on the removed value.  tv is the map the struct
\* literal starts from; a key that an earlier field removed is no longer in
\* the map when the i-th field asks for it.
field_at(tv, i) ==
    LET key == Fields[i].key
        r == IF key \in KeysBefore[i]
             THEN Err("Unexpected absent key", Str(key))
             ELSE remove(tv, key)
    IN  IF r.tag = "Err" THEN Err(r.reason, r.value)
        ELSE field_value(Fields[i].kind, r.v)

\* The struct literal giving the outcome of the last field that stops.
struct_literal_last_failure(tv, started_at) ==
    LET f == [i \in 1..Len(Fields) |-> field_at(tv, i)] @@ <<>>
        stops == {i \in 1..Len(Fields) : f[i].tag # "Ok"}
    IN  IF stops # {}
        THEN f[CHOOSE i \in stops : \A j \in stops : i >= j]
        ELSE Ok([k \in ExtractedKeys |->
                    IF k = "started_at" THEN started_at ELSE f[Place[k]].v])

\* The struct literal: its fields are evaluated in the order written, the
\* first try! that fails or unwrap that panics ends the call, otherwise the
\* record is built.  tv is the tournament object without started_at, and
\* started_at the local of that name.  (f @@ <<>> is f, as an explicit
\* sequence of the 50 outcomes.)
struct_literal(tv, started_at) ==
    LET f == [i \in 1..Len(Fields) |-> field_at(tv, i)] @@ <<>>
        stops == {i \in 1..Len(Fields) : f[i].tag # "Ok"}
    IN  IF stops # {}
        THEN f[CHOOSE i \in stops : \A j \in stops : i <= j]
        ELSE Ok([k \in ExtractedKeys |->
                    IF k = "started_at" THEN started_at ELSE f[Place[k]].v])

\* Tournament::decode that also requires ranked_by in the tournament object.
Tournament_decode_ranked(value) ==
    LET m == into_map(value)
    IN  IF m.tag = "Err" THEN m
        ELSE LET t == remove(m.v, "tournament")
             IN  IF t.tag = "Err" THEN t
                 ELSE LET tv == into_map(t.v)
                      IN  IF tv.tag = "Err" THEN tv
                          ELSE LET b == remove(tv.v, "ranked_by")
                               IN  IF b.tag = "Err" THEN b
                                   ELSE LET s == remove(b.map, "started_at")
                                        IN  IF s.tag = "Err" THEN s
                                            ELSE struct_literal(s.map, started_at_field(s.v))

Tournament_decode(value) ==
    LET m == into_map(value)
    IN  IF m.tag = "Err" THEN m
        ELSE LET t == remove(m.v, "tournament")
             IN  IF t.tag = "Err" THEN t
                 ELSE LET tv == into_map(t.v)
                      IN  IF tv.tag = "Err" THEN tv
                          ELSE LET s == remove(tv.v, "started_at")
                               IN  IF s.tag = "Err" THEN s
                                   ELSE struct_literal(s.map, started_at_field(s.v))

(***************************************************************************)
(* decode_tournaments and Index::decode.                                   *)
(***************************************************************************)
\* The loop over arr from its i-th element on, ts the records pushed so far.
RECURSIVE decode_loop(_, _, _)
decode_loop(arr, i, ts) ==
    IF i > Len(arr)
    THEN Ok(ts)
    ELSE LET r == Tournament_decode(arr[i])
         IN  IF r.tag = "Panic"
             THEN Panic
             ELSE decode_loop(arr, i + 1, IF r.tag = "Ok" THEN Append(ts, r.v) ELSE ts)

\* decode_tournaments that looks for the array under "tournaments" of an object.
decode_tournaments_unwrapping(value) ==
    LET arr == IF value.t = "Object" /\ "tournaments" \in DOMAIN value.v
               THEN as_array(value.v["tournaments"])
               ELSE as_array(value)
    IN  IF arr.tag = "Some" THEN decode_loop(arr.v, 1, <<>>) ELSE Ok(<<>>)

decode_tournaments(value) ==
    LET arr == as_array(value)
    IN  IF arr.tag = "Some" THEN decode_loop(arr.v, 1, <<>>) ELSE Ok(<<>>)

\* Index { tournaments: decode_tournaments(value) }
Index_decode(value) ==
    LET ts == decode_tournaments(value)
    IN  IF ts.tag = "Panic" THEN Panic ELSE Ok([tournaments |-> ts.v])

(***************************************************************************)
(* The payloads the model draws.                                           *)
(***************************************************************************)
\* The tournament object of tests::test_tournament_parse.
Sample ==
    [ accept_attachments |-> Bool(FALSE),
      allow_participant_match_reporting |-> Bool(TRUE),
      anonymous_voting |-> Bool(FALSE),
      category |-> Null,
      check_in_duration |-> Null,
      completed_at |-> Null,
      created_at |-> Str("2015-01-19T16:47:30-05:00"),
      created_by_api |-> Bool(FALSE),
      credit_capped |-> Bool(FALSE),
      description |-> Str("sample description"),
      game_id |-> U64(600),
      group_stages_enabled |-> Bool(FALSE),
      hide_forum |-> Bool(FALSE),
      hide_seeds |-> Bool(FALSE),
      hold_third_place_match |-> Bool(FALSE),
      id |-> U64(1086875),
      max_predictions_per_user |-> U64(1),
      name |-> Str("Sample Tournament 1"),
      notify_users_when_matches_open |-> Bool(TRUE),
      notify_users_when_the_tournament_ends |-> Bool(TRUE),
      open_signup |-> Bool(FALSE),
      participants_count |-> U64(4),
      prediction_method |-> U64(0),
      predictions_opened_at |-> Null,
      private |-> Bool(FALSE),
      progress_meter |-> U64(0),
      pts_for_bye |-> Str("1.0"),
      pts_for_game_tie |-> Str("0.0"),
      pts_for_game_win |-> Str("0.0"),
      pts_for_match_tie |-> Str("0.5"),
      pts_for_match_win |-> Str("1.0"),
      quick_advance |-> Bool(FALSE),
      ranked_by |-> Str("match wins"),
      require_score_agreement |-> Bool(FALSE),
      rr_pts_for_game_tie |-> Str("0.0"),
      rr_pts_for_game_win |-> Str("0.0"),
      rr_pts_for_match_tie |-> Str("0.5"),
      rr_pts_for_match_win |-> Str("1.0"),
      sequential_pairings |-> Bool(FALSE),
      show_rounds |-> Bool(TRUE),
      signup_cap |-> Null,
      start_at |-> Null,
      started_at |-> Str("2015-01-19T16:57:17-05:00"),
      started_checking_in_at |-> Null,
      state |-> Str("underway"),
      swiss_rounds |-> U64(0),
      teams |-> Bool(FALSE),
      tie_breaks |-> Arr(<<Str("match wins vs tied"), Str("game wins"), Str("points scored")>>),
      tournament_type |-> Str("single elimination"),
      updated_at |-> Str("2015-01-19T16:57:17-05:00"),
      url |-> Str("sample_tournament_1"),
      description_source |-> Str("sample description source"),
      subdomain |-> Null,
      full_challonge_url |-> Str("http://challonge.com/sample_tournament_1"),
      live_image_url |-> Str("http://images.challonge.com/sample_tournament_1.png"),
      sign_up_url |-> Null,
      review_before_finalizing |-> Bool(TRUE),
      accepting_predictions |-> Bool(FALSE),
      participants_locked |-> Bool(TRUE),
      game_name |-> Str("Table Tennis"),
      participants_swappable |-> Bool(FALSE),
      team_convertable |-> Bool(FALSE),
      group_stages_were_started |-> Bool(FALSE) ]

\* {"tournament": obj}
Wrapper(obj) == Obj([tournament |-> Obj(obj)])

\* The shape of the expression that reads each extracted key.
Kinds ==
    [k \in ExtractedKeys |->
        IF k = "started_at" THEN "started_at"
        ELSE Fields[CHOOSE i \in 1..Len(Fields) : Fields[i].key = k].kind]

KindOf(k) == Kinds[k]

KeysOfKind(kinds) == {k \in ExtractedKeys : KindOf(k) \in kinds}

\* Keys of the sample that the decoder does not read, and one key the sample
\* does not have.
OtherKeys == <<"ranked_by", "category", "state", "tie_breaks", "seed">>

\* The keys a drawn payload may differ in, in the order the decoder reads them.
EditKeys == <<"started_at">> \o [i \in 1..Len(Fields) |-> Fields[i].key] \o OtherKeys

\* Marks the removal of a key.
Absent == [t |-> "Absent"]

\* The values a drawn payload may hold under a key, by the shape of the
\* expression that reads it.
Variants(kind) ==
    CASE kind = "bool" -> <<Absent, Null, Bool(TRUE), Bool(FALSE)>>
      [] kind = "u64" -> <<Absent, Str("7"), U64(0), U64(7)>>
      [] kind = "string" -> <<Absent, Null, Str(""), Str("other")>>
      [] kind = "f64" -> <<Absent, F64(10), Str("abc"), Str("2.5"), Str("3")>>
      [] kind = "tournament_type" ->
            <<Absent, Null, Str(""), Str("double elimination"), Str("round_robin"),
              Str("swiss"), Str("Swiss")>>
      [] kind \in {"created_at", "updated_at", "started_at"} ->
            <<Absent, Null, Str(""), Str("2015-01-19 16:57:17"),
              Str("2016-02-29T08:00:00+01:00")>>
      [] OTHER -> <<Absent, Null, Str("points scored")>>

VariantsOf(k) == Variants(IF k \in ExtractedKeys THEN KindOf(k) ELSE "other")

\* Every single departure from the sample: the key, its place in EditKeys and
\* the value put there.
AllEdits ==
    UNION { LET k == EditKeys[i]
                vs == VariantsOf(k)
            IN  { [key |-> k, pos |-> i, v |-> vs[j]] :
                    j \in {n \in 1..Len(vs) :
                             IF k \in DOMAIN Sample THEN vs[n] # Sample[k]
                             ELSE vs[n] # Absent} }
          : i \in 1..Len(EditKeys) }

\* No departure.
NoEdit == [key |-> "", pos |-> 0, v |-> Absent]

\* obj with the value of key k replaced by v, or without k.
Put(obj, k, v) ==
    IF v = Absent
    THEN [j \in (DOMAIN obj) \ {k} |-> obj[j]]
    ELSE [j \in (DOMAIN obj) \cup {k} |-> IF j = k THEN v ELSE obj[j]]

\* The sample after the edits pick[1], pick[2], ..., pick[n].
RECURSIVE Edited(_, _)
Edited(pick, n) ==
    IF n = 0
    THEN Sample
    ELSE IF pick[n] = NoEdit
         THEN Edited(pick, n - 1)
         ELSE Put(Edited(pick, n - 1), pick[n].key, pick[n].v)

\* The number of keys under which obj and the sample differ.
Departures(obj) ==
    Cardinality({k \in (DOMAIN obj) \cup (DOMAIN Sample) :
                    IF k \in (DOMAIN obj) \cap (DOMAIN Sample)
                    THEN obj[k] # Sample[k]
                    ELSE TRUE})

\* Picks name edits of distinct keys in the order of the keys, unused picks first.
ValidPick(pick) ==
    \A n \in 1..(MaxEdits - 1) :
        IF pick[n] = NoEdit THEN TRUE ELSE pick[n].pos < pick[n + 1].pos

\* The extracted keys probed in combination (several taken out together, or
\* one changed along with keys the decoder does not read): the first key
\* read, keys around the mandatory timestamps, the timestamps themselves, a
\* key of each shape of expression and the last key read.
ProbedKeys ==
    { "started_at", "accept_attachments", "anonymous_voting", "created_at",
      "created_by_api", "name", "pts_for_bye", "tournament_type", "updated_at",
      "url", "description_source", "group_stages_were_started" }

\* What the keys that stay may hold while others are taken out: the sample's
\* values, or mandatory timestamps that do not parse and a name of the wrong
\* type.
Contents ==
    [ created_at : {Sample["created_at"], Null},
      updated_at : {Sample["updated_at"], Str("2015-01-19 16:57:17")},
      name : {Sample["name"], U64(7)} ]

\* The sample holding c under the keys of c, without the keys ks.
Without(c, ks) ==
    [k \in (DOMAIN Sample) \ ks |-> IF k \in DOMAIN c THEN c[k] ELSE Sample[k]]

\* Values that are not a wrapper around a tournament object.
BadEnvelopes ==
    { Str("not an object"), Null, Bool(TRUE), U64(1086875), F64(10), Arr(<<>>),
      Arr(<<Wrapper(Sample)>>), Obj(Sample), Obj(<<>>),
      Obj([tournaments |-> Arr(<<Wrapper(Sample)>>)]),
      Obj([tournament |-> Null]), Obj([tournament |-> Str("sample_tournament_1")]),
      Obj([tournament |-> Arr(<<Obj(Sample)>>)]), Obj([tournament |-> U64(1086875)]) }

\* Wrappers with keys beside "tournament".
WideEnvelopes ==
    { Obj([tournament |-> Obj(Sample), tournaments |-> Arr(<<>>)]),
      Obj([tournament |-> Obj(Sample), started_at |-> Null, id |-> U64(2)]) }

\* What the elements of a drawn array are taken from: two records that decode,
\* one that decodes without started_at, elements that fail with an error and
\* elements whose mandatory timestamps do not parse.
Elements ==
    { Wrapper(Sample),
      Wrapper(Put(Put(Sample, "id", U64(2)), "name", Str("Sample Tournament 2"))),
      Wrapper(Put(Sample, "started_at", Null)),
      Obj([id |-> U64(3)]),
      Str("not an object"),
      Wrapper(Put(Sample, "name", Absent)),
      Wrapper(Put(Sample, "created_at", Null)),
      Wrapper(Put(Sample, "updated_at", Str("2015-01-19 16:57:17"))) }

\* The arrays of at most n elements.
RECURSIVE Arrays(_)
Arrays(n) ==
    IF n = 0
    THEN {<<>>}
    ELSE LET shorter == Arrays(n - 1)
         IN  shorter \cup {Append(a, e) : a \in {b \in shorter : Len(b) = n - 1},
                                          e \in Elements}

\* Changes to keys the decoder does not read: env beside "tournament" in the
\* envelope, obj inside the tournament object, each a sequence of <<key, value>>.
Variations ==
    { [env |-> <<>>,
       obj |-> << <<"ranked_by", Absent>>, <<"state", Str("complete")>> >>],
      [env |-> <<>>,
       obj |-> << <<"seed", U64(1)>>, <<"tie_breaks", Null>>,
                  <<"category", Str("points scored")>> >>],
      [env |-> << <<"tournaments", Arr(<<>>)>>, <<"started_at", Null>> >>,
       obj |-> <<>>],
      [env |-> << <<"id", U64(2)>> >>,
       obj |-> << <<"ranked_by", U64(7)>> >>] }

\* m after the changes puts[1], ..., puts[n].
RECURSIVE PutAll(_, _, _)
PutAll(m, puts, n) ==
    IF n = 0 THEN m ELSE Put(PutAll(m, puts, n - 1), puts[n][1], puts[n][2])

\* The object v after the variation c; the changes inside the tournament
\* object apply when there is one.
Varied(v, c) ==
    LET e == PutAll(v.v, c.env, Len(c.env))
    IN  IF "tournament" \in DOMAIN e /\ e["tournament"].t = "Object"
        THEN Obj(Put(e, "tournament",
                     Obj(PutAll(e["tournament"].v, c.obj, Len(c.obj)))))
        ELSE Obj(e)

\* The extracted keys under which obj and the sample differ.
ExtractedDepartures(obj) ==
    {k \in ExtractedKeys : IF k \in DOMAIN obj THEN obj[k] # Sample[k] ELSE TRUE}

\* Values that are not an array.
NonArrays ==
    { Null, Bool(FALSE), U64(3), F64(5), Str("[]"), Obj(<<>>), Wrapper(Sample),
      Obj([tournaments |-> Arr(<<Wrapper(Sample)>>)]) }

\* The texts handed to TournamentType::from_str beside the spellings the
\* conversions produce.
Texts ==
    { "", "unknown", "Swiss", "single-elimination", "singleelimination",
      "Single Elimination", "round  robin", " swiss", "double_elimination ",
      "SingleElimination", "match wins", "swiss_system" }

\* The values of the wrong type that may replace the value of a field.
WrongType(kind) ==
    CASE kind = "bool" -> {Null, U64(1), F64(10), Str("true"), Arr(<<>>), Obj(<<>>)}
      [] kind = "u64" -> {Null, Bool(TRUE), F64(25), Str("7"), Arr(<<U64(7)>>), Obj(<<>>)}
      [] kind = "string" -> {Null, Bool(TRUE), U64(7), F64(5), Arr(<<Str("other")>>), Obj(<<>>)}
      [] kind = "f64" -> {Null, Bool(TRUE), U64(1), F64(10), Str("abc"), Str(""),
                          Arr(<<Str("1.0")>>), Obj(<<>>)}

(***************************************************************************)
(* The state: one call of the decoding layer and its outcome.              *)
(***************************************************************************)
VARIABLES
    op,        \* the entry point exercised: "decode", "index" or "type"
    value,     \* the Value handed to Tournament::decode or Index::decode
    result,    \* the outcome of Tournament::decode(value), once called
    before,    \* the outcome of the decode that preceded a replacement
    replaced,  \* the key whose value was replaced after the first decode
    earlier,   \* the payload decoded before its unread keys were changed
    index,     \* the outcome of Index::decode(value), once called
    variant,   \* the TournamentType handed to to_get_param or Display
    text,      \* the text handed to TournamentType::from_str
    parsed     \* the outcome of TournamentType::from_str(text), once called

vars == <<op, value, result, before, replaced, earlier, index, variant, text, parsed>>

NotCalled == [tag |-> "NotCalled"]

InitDecode ==
    /\ op = "decode"
    /\ \/ \E pick \in [1..MaxEdits -> AllEdits \cup {NoEdit}] :
              /\ ValidPick(pick)
              /\ value = Wrapper(Edited(pick, MaxEdits))
       \/ \E ks \in SUBSET ProbedKeys, c \in Contents :
              /\ Cardinality(ks) \in 2..MaxAbsent
              /\ value = Wrapper(Without(c, ks))
       \/ value \in BadEnvelopes \cup WideEnvelopes
    /\ variant = None /\ text = None

InitIndex ==
    /\ op = "index"
    /\ value \in {Arr(a) : a \in Arrays(MaxLen)} \cup NonArrays
    /\ variant = None /\ text = None

InitType ==
    /\ op = "type"
    /\ value = Null
    /\ \/ variant \in {Some(v) : v \in TournamentType} /\ text = None
       \/ variant = None /\ text \in {Some(s) : s \in Texts}

Init ==
    /\ InitDecode \/ InitIndex \/ InitType
    /\ result = NotCalled
    /\ before = NotCalled
    /\ replaced = None
    /\ earlier = None
    /\ index = NotCalled
    /\ parsed = NotCalled

\* Tournament::decode(value)
Decode ==
    /\ op = "decode"
    /\ result = NotCalled
    /\ result' = Tournament_decode(value)
    /\ UNCHANGED <<op, value, before, replaced, earlier, index, variant, text, parsed>>

\* The caller replaces the value of one boolean, unsigned-integer, scoring or
\* free-text field of the payload by a value of the wrong type and decodes
\* the payload again.  The payload stays within MaxEdits departures from the
\* sample.
DecodeReplaced ==
    /\ op = "decode"
    /\ result # NotCalled
    /\ replaced = None
    /\ earlier = None
    /\ value.t = "Object"
    /\ "tournament" \in DOMAIN value.v
    /\ value.v["tournament"].t = "Object"
    /\ Departures(value.v["tournament"].v) < MaxEdits
    /\ \E k \in KeysOfKind({"bool", "u64", "string", "f64"}) \cap
                    DOMAIN value.v["tournament"].v :
          \E w \in WrongType(KindOf(k)) :
              /\ value' = Obj(Put(value.v, "tournament",
                                  Obj(Put(value.v["tournament"].v, k, w))))
              /\ replaced' = Some(k)
    /\ before' = result
    /\ result' = Tournament_decode(value')
    /\ UNCHANGED <<op, earlier, index, variant, text, parsed>>

\* The caller changes keys of the payload that the decoder does not read and
\* decodes the payload again.  In its extracted keys the payload is within
\* MaxEdits departures from the sample, all of them in probed keys.
DecodeVaried ==
    /\ op = "decode"
    /\ result # NotCalled
    /\ replaced = None
    /\ earlier = None
    /\ value.t = "Object"
    /\ ("tournament" \in DOMAIN value.v /\ value.v["tournament"].t = "Object")
          => LET ds == ExtractedDepartures(value.v["tournament"].v)
             IN  ds \subseteq ProbedKeys /\ Cardinality(ds) <= MaxEdits
    /\ \E c \in Variations :
          /\ Varied(value, c) # value
          /\ value' = Varied(value, c)
    /\ earlier' = Some(value)
    /\ before' = result
    /\ result' = Tournament_decode(value')
    /\ UNCHANGED <<op, replaced, index, variant, text, parsed>>

\* Index::decode(value)
IndexDecode ==
    /\ op = "index"
    /\ index = NotCalled
    /\ index' = Index_decode(value)
    /\ UNCHANGED <<op, value, result, before, replaced, earlier, variant, text, parsed>>

\* variant.to_get_param()
ToGetParam ==
    /\ op = "type"
    /\ variant # None
    /\ text = None
    /\ text' = Some(to_get_param(variant.v))
    /\ UNCHANGED <<op, value, result, before, replaced, earlier, index, variant, parsed>>

\* format!("{}", variant)
Display ==
    /\ op = "type"
    /\ variant # None
    /\ text = None
    /\ text' = Some(to_string(variant.v))
    /\ UNCHANGED <<op, value, result, before, replaced, earlier, index, variant, parsed>>

\* TournamentType::from_str(text)
FromStr ==
    /\ op = "type"
    /\ text # None
    /\ parsed = NotCalled
    /\ parsed' = from_str(text.v)
    /\ UNCHANGED <<op, value, result, before, replaced, earlier, index, variant, text>>

Next ==
    \/ Decode \/ DecodeReplaced \/ DecodeVaried
    \/ IndexDecode \/ ToGetParam \/ Display \/ FromStr

Spec == Init /\ [][Next]_vars

TypeOK ==
    /\ op \in {"decode", "index", "type"}
    /\ result.tag \in {"NotCalled", "Ok", "Err", "Panic"}
    /\ index.tag \in {"NotCalled", "Ok", "Panic"}
    /\ parsed.tag \in {"NotCalled", "Ok", "Err"}

(***************************************************************************)
(* Vocabulary of the properties.                                           *)
(***************************************************************************)
\* v is {"tournament": {...}, ...}
IsWrapper(v) ==
    /\ v.t = "Object"
    /\ "tournament" \in DOMAIN v.v
    /\ v.v["tournament"].t = "Object"

\* The tournament object of the payload, when the payload is a wrapper.
TournamentObject == value.v["tournament"].v

\* Tournament::decode has returned or panicked.
Decoded == op = "decode" /\ result # NotCalled

\* obj holds RFC 3339 text under k.
WellFormedTimestamp(obj, k) ==
    /\ k \in DOMAIN obj
    /\ obj[k].t = "String"
    /\ parse_from_rfc3339(obj[k].v).tag = "Ok"

\* Both mandatory timestamps of obj are RFC 3339 text.
MandatoryTimestampsWellFormed(obj) ==
    WellFormedTimestamp(obj, "created_at") /\ WellFormedTimestamp(obj, "updated_at")

\* The payload is a wrapper that has every extracted key except, possibly,
\* started_at, and well-formed mandatory timestamps.
DecodableButForStartedAt ==
    /\ IsWrapper(value)
    /\ ExtractedKeys \ {"started_at"} \subseteq DOMAIN TournamentObject
    /\ MandatoryTimestampsWellFormed(TournamentObject)

\* The payload is a wrapper with every extracted key and well-formed
\* mandatory timestamps.
AllPresentAndTimestamped ==
    DecodableButForStartedAt /\ "started_at" \in DOMAIN TournamentObject

\* The zero value of a field, by the shape of its expression.
DefaultOf(kind) ==
    CASE kind = "bool" -> FALSE
      [] kind = "u64" -> 0
      [] kind = "f64" -> 0
      [] kind = "string" -> ""

(***************************************************************************)
(* C1.  A payload whose created_at or updated_at is missing, is not a      *)
(* string or is not RFC 3339 text makes Tournament::decode return a Decode *)
(* error to its caller.                                                    *)
(***************************************************************************)
C1_BadMandatoryTimestampIsDecodeError ==
    (Decoded /\ IsWrapper(value) /\ ~MandatoryTimestampsWellFormed(TournamentObject))
        => result.tag = "Err"

C3_CollectionDecodeNeverFails ==
    (op = "index" /\ index # NotCalled) => index.tag = "Ok"

(***************************************************************************)
(* C4.  For an array, Index::decode returns exactly the records of the     *)
(* elements that Tournament::decode accepts, one each, in input order.     *)
(***************************************************************************)
\* The elements of arr that Tournament::decode accepts, decoded, in order.
RECURSIVE SuccessfulRecords(_)
SuccessfulRecords(arr) ==
    IF arr = <<>>
    THEN <<>>
    ELSE LET r == Tournament_decode(Head(arr))
         IN  (IF r.tag = "Ok" THEN <<r.v>> ELSE <<>>) \o SuccessfulRecords(Tail(arr))

C4_ExactlyTheSuccessfulRecords ==
    (op = "index" /\ index # NotCalled /\ value.t = "Array")
        => (index.tag = "Ok" /\ index.v.tournaments = SuccessfulRecords(value.v))

(***************************************************************************)
(* C5.  As claimed: Tournament::decode returns an error only for an        *)
(* envelope shape mismatch or a missing or unparsable mandatory timestamp. *)
(***************************************************************************)
C5_ErrorOnlyForEnvelopeOrTimestamp ==
    (Decoded /\ result.tag = "Err")
        => (~IsWrapper(value) \/ ~MandatoryTimestampsWellFormed(TournamentObject))

(***************************************************************************)
(* C5, amended.  Tournament::decode returns an error only for an envelope  *)
(* shape mismatch or for an extracted key that is absent from the          *)
(* tournament object; a present value of the wrong type or of unparsable   *)
(* text in a field other than the mandatory timestamps is recovered by the *)
(* field's fallback, so a wrapper that has every extracted key and         *)
(* well-formed mandatory timestamps always decodes.                        *)
(***************************************************************************)
C5_ErrorOnlyForEnvelopeOrAbsentKey ==
    /\ (Decoded /\ result.tag = "Err")
          => \/ ~IsWrapper(value)
             \/ /\ ~(ExtractedKeys \subseteq DOMAIN TournamentObject)
                /\ result.reason = "Unexpected absent key"
                /\ result.value.t = "String"
                /\ result.value.v \in ExtractedKeys \ DOMAIN TournamentObject
    /\ (Decoded /\ AllPresentAndTimestamped) => result.tag = "Ok"

\* A wrapper with well-formed mandatory timestamps was refused for an absent
\* key.
C5_Witness ==
    /\ Decoded /\ IsWrapper(value)
    /\ MandatoryTimestampsWellFormed(TournamentObject)
    /\ "started_at" \in DOMAIN TournamentObject
    /\ result.tag = "Err"
    /\ result.reason = "Unexpected absent key"

(***************************************************************************)
(* C6.  In a payload with every key and well-formed mandatory timestamps,  *)
(* replacing the value of one boolean, unsigned-integer, scoring or        *)
(* free-text field by a value of the wrong type leaves decode successful,  *)
(* gives the field its default and leaves every other field of the record  *)
(* as it was.                                                              *)
(***************************************************************************)
C6_WrongTypeTakesDefault ==
    (Decoded /\ replaced # None /\ AllPresentAndTimestamped)
        => /\ before.tag = "Ok"
           /\ result.tag = "Ok"
           /\ result.v[replaced.v] = DefaultOf(KindOf(replaced.v))
           /\ \A k \in ExtractedKeys \ {replaced.v} : result.v[k] = before.v[k]

\* The id of the sample was replaced by a value that is not an unsigned
\* integer and the record's id went from the sample's to 0.
C6_Witness ==
    /\ Decoded /\ AllPresentAndTimestamped
    /\ replaced = Some("id")
    /\ before.tag = "Ok" /\ before.v["id"] = 1086875
    /\ result.tag = "Ok" /\ result.v["id"] = 0

(***************************************************************************)
(* C7.  A wrapper whose tournament object has every extracted key with a   *)
(* correctly typed value decodes, and every field of the record is the     *)
(* input field after its coercion: booleans, unsigned integers and strings *)
(* copied, scoring fields parsed from their quoted form, tournament_type   *)
(* mapped to its variant, started_at present with the parsed instant.      *)
(***************************************************************************)
\* val has the type the field of this shape is meant to receive.
CorrectlyTyped(kind, val) ==
    CASE kind = "bool" -> val.t = "Bool"
      [] kind = "u64" -> val.t = "U64"
      [] kind = "string" -> val.t = "String"
      [] kind = "f64" -> val.t = "String" /\ parse_f64(val.v).tag = "Ok"
      [] kind = "tournament_type" -> val.t = "String" /\ from_str(val.v).tag = "Ok"
      [] kind \in {"created_at", "updated_at", "started_at"} ->
            val.t = "String" /\ parse_from_rfc3339(val.v).tag = "Ok"

\* The field a correctly typed val is documented to become.
CoercionOf(kind, val) ==
    CASE kind \in {"bool", "u64", "string"} -> val.v
      [] kind = "f64" -> parse_f64(val.v).v
      [] kind = "tournament_type" -> from_str(val.v).v
      [] kind \in {"created_at", "updated_at"} -> parse_from_rfc3339(val.v).v
      [] kind = "started_at" -> Some(parse_from_rfc3339(val.v).v)

C7_WellTypedPayloadDecodesFieldByField ==
    (/\ Decoded
     /\ IsWrapper(value)
     /\ ExtractedKeys \subseteq DOMAIN TournamentObject
     /\ \A k \in ExtractedKeys : CorrectlyTyped(KindOf(k), TournamentObject[k]))
        => /\ result.tag = "Ok"
           /\ DOMAIN result.v = ExtractedKeys
           /\ \A k \in ExtractedKeys :
                 result.v[k] = CoercionOf(KindOf(k), TournamentObject[k])

\* The sample payload was decoded to the record the test expects.
C7_Witness ==
    /\ Decoded
    /\ value = Wrapper(Sample)
    /\ result.tag = "Ok"
    /\ result.v["id"] = 1086875
    /\ result.v["tournament_type"] = "SingleElimination"
    /\ result.v["pts_for_bye"] = 10
    /\ result.v["started_at"] = Some(DateTime(2015, 1, 19, 16, 57, 17, -300))

(***************************************************************************)
(* C8.  from_str returns Ok(v) on to_get_param(v) and on the Display text  *)
(* of v, for each of the four variants v, and an error on every text that  *)
(* is neither.                                                             *)
(***************************************************************************)
\* The machine and display spellings of the four variants.
Spellings == {to_get_param(v) : v \in TournamentType} \cup {to_string(v) : v \in TournamentType}

C8_FromStrRoundTrips ==
    (op = "type" /\ parsed # NotCalled)
        => /\ variant # None => parsed = Ok(variant.v)
           /\ text.v \notin Spellings => parsed.tag = "Err"

\* The display text of RoundRobin was parsed back to RoundRobin.
C8_Witness ==
    /\ op = "type"
    /\ variant = Some("RoundRobin")
    /\ text = Some("round robin")
    /\ parsed = Ok("RoundRobin")

(***************************************************************************)
(* C9.  The tournament_type of a decoded record is one of the four         *)
(* variants: SingleElimination when the payload's value is not a string or *)
(* is text from_str does not recognise, otherwise the variant from_str     *)
(* returns; and such a value never makes decode fail.                      *)
(***************************************************************************)
C9_TournamentTypeResolves ==
    /\ (Decoded /\ AllPresentAndTimestamped) => result.tag = "Ok"
    /\ (Decoded /\ result.tag = "Ok")
          => LET tt == TournamentObject["tournament_type"]
             IN  /\ result.v["tournament_type"] \in TournamentType
                 /\ IF tt.t = "String" /\ from_str(tt.v).tag = "Ok"
                    THEN result.v["tournament_type"] = from_str(tt.v).v
                    ELSE result.v["tournament_type"] = "SingleElimination"

\* The unrecognised text "Swiss" was decoded to SingleElimination.
C9_Witness ==
    /\ Decoded /\ IsWrapper(value)
    /\ "tournament_type" \in DOMAIN TournamentObject
    /\ TournamentObject["tournament_type"] = Str("Swiss")
    /\ result.tag = "Ok"
    /\ result.v["tournament_type"] = "SingleElimination"

(***************************************************************************)
(* C10.  Tournament::decode returns the "Expected object" error carrying   *)
(* the offending value when the payload, or the value under "tournament",  *)
(* is not an object, and the "Unexpected absent key" error carrying        *)
(* "tournament" when the payload object has no such key.                   *)
(***************************************************************************)
C10_EnvelopeErrors ==
    Decoded =>
        IF value.t # "Object"
        THEN /\ result.tag = "Err"
             /\ result.reason = "Expected object"
             /\ result.value = value
        ELSE IF "tournament" \notin DOMAIN value.v
        THEN /\ result.tag = "Err"
             /\ result.reason = "Unexpected absent key"
             /\ result.value = Str("tournament")
        ELSE (value.v["tournament"].t # "Object")
                => /\ result.tag = "Err"
                   /\ result.reason = "Expected object"
                   /\ result.value = value.v["tournament"]

\* A bare string was refused with "Expected object".
C10_Witness ==
    /\ Decoded
    /\ value = Str("not an object")
    /\ result.tag = "Err"
    /\ result.reason = "Expected object"
    /\ result.value = Str("not an object")

(***************************************************************************)
(* C11.  Index::decode of a value that is not an array (an object, a       *)
(* string, a number, a boolean, null) returns the empty sequence and no    *)
(* error; an object holding an array under "tournaments" is not unwrapped. *)
(***************************************************************************)
C11_NonArrayIsEmptySequence ==
    (op = "index" /\ index # NotCalled /\ value.t # "Array")
        => index = Ok([tournaments |-> <<>>])

\* An object with a decodable record under "tournaments" gave no record.
C11_Witness ==
    /\ op = "index"
    /\ value = Obj([tournaments |-> Arr(<<Wrapper(Sample)>>)])
    /\ index = Ok([tournaments |-> <<>>])

(***************************************************************************)
(* C12.  Tournament::decode reads the extracted keys in one forward pass,  *)
(* started_at first and then the fields of the struct literal in the order *)
(* written: when the tournament object lacks one or more extracted keys    *)
(* and every mandatory timestamp read before the earliest absent key is    *)
(* RFC 3339 text, decode returns the "Unexpected absent key" error         *)
(* carrying the earliest absent key, whatever the later keys hold.         *)
(***************************************************************************)
\* The extracted keys in the order Tournament::decode removes them.
ExtractionOrder == <<"started_at">> \o [i \in 1..Len(Fields) |-> Fields[i].key]

\* The places in ExtractionOrder of the extracted keys obj lacks.
AbsentPlaces(obj) ==
    {i \in 1..Len(ExtractionOrder) : ExtractionOrder[i] \notin DOMAIN obj}

\* The place of the earliest extracted key obj lacks.
FirstAbsentPlace(obj) ==
    CHOOSE i \in AbsentPlaces(obj) : \A j \in AbsentPlaces(obj) : i <= j

C12_EarliestAbsentKeyIsReported ==
    (/\ Decoded
     /\ IsWrapper(value)
     /\ AbsentPlaces(TournamentObject) # {}
     /\ \A i \in 1..(FirstAbsentPlace(TournamentObject) - 1) :
           ExtractionOrder[i] \in {"created_at", "updated_at"}
              => WellFormedTimestamp(TournamentObject, ExtractionOrder[i]))
        => result = Err("Unexpected absent key",
                        Str(ExtractionOrder[FirstAbsentPlace(TournamentObject)]))

\* A payload without name and url, whose updated_at (read after name) does
\* not parse, was refused for the absent name.
C12_Witness ==
    /\ Decoded /\ IsWrapper(value)
    /\ (DOMAIN Sample) \ (DOMAIN TournamentObject) = {"name", "url"}
    /\ WellFormedTimestamp(TournamentObject, "created_at")
    /\ ~WellFormedTimestamp(TournamentObject, "updated_at")
    /\ result = Err("Unexpected absent key", Str("name"))

(***************************************************************************)
(* C13.  Keys that Tournament::decode does not read never influence its    *)
(* outcome: two payloads that agree on the "tournament" key and, inside    *)
(* the tournament object, on every extracted key give the same record or   *)
(* the same failure, whatever other keys (ranked_by, category, state,      *)
(* tie_breaks, keys beside "tournament" in the envelope) they hold.        *)
(***************************************************************************)
\* The part of the object v that Tournament::decode reads: whether it has
\* "tournament", the value under it when that is not an object, and else the
\* extracted keys of the tournament object with their values.
ReadPart(v) ==
    IF "tournament" \notin DOMAIN v.v
    THEN <<"no tournament">>
    ELSE IF v.v["tournament"].t # "Object"
    THEN <<"not an object", v.v["tournament"]>>
    ELSE LET obj == v.v["tournament"].v
         IN  <<"object", [k \in ExtractedKeys \cap DOMAIN obj |-> obj[k]]>>

C13_UnreadKeysDoNotInfluence ==
    (Decoded /\ earlier # None /\ ReadPart(earlier.v) = ReadPart(value))
        => (before # NotCalled /\ result = before)

\* The sample without ranked_by and with another state decoded to the record
\* the sample decodes to.
C13_Witness ==
    /\ Decoded
    /\ earlier = Some(Wrapper(Sample))
    /\ "ranked_by" \notin DOMAIN TournamentObject
    /\ TournamentObject["state"] = Str("complete")
    /\ result.tag = "Ok"
    /\ result = before

====
